---- MODULE Spec2Model ----
(***************************************************************************)
(* Scheduled content-release pipeline of the drama-shorts backend          *)
(* (jobs/releaseComingSoonEpisodes.js): the Series Promoter                *)
(* releaseComingSoonSeries, the Episode Promoter releaseComingSoonEpisodes *)
(* and the cron tick that runs them, over the five collections             *)
(* ComingSoonSeries, ComingSoonEpisode, Series, Episode, SeriesTransferLog.*)
(* Every await of the source is one step; a store operation may throw.     *)
(***************************************************************************)
EXTENDS Integers, Sequences, FiniteSets, TLC

\* ---------------------------------------------------------------- bounds
NumCS == 2          \* ComingSoonSeries documents in the store
NumEp == 2          \* ComingSoonEpisode documents in the store
MaxEpNum == 2       \* episode numbers used (schema allows 1..100)
MaxTime == 2        \* clock values 0..MaxTime
MaxFaults == 1      \* store operations that throw, over a whole behaviour
MaxOps == 2         \* admin requests that change the store, over a whole behaviour

None == 0           \* an absent reference (field missing / undefined)

CSIds == 1..NumCS
EpIds == 1..NumEp
\* _id of a Series that exists before any release; Series ids are kept apart from
\* ComingSoonSeries ids, as ObjectIds are
PreLive == NumCS + 1
\* the promoter calls that can be in flight: the cron callback, and the two calls
\* startCronJob makes without awaiting them
TickProcs == {"tick"}
BootProcs == {"bootS", "bootE"}
Procs == TickProcs \cup BootProcs

VARIABLES
  now,          \* wall clock (new Date())
  csSeries,     \* ComingSoonSeries collection: _id -> [st, sched]
  csEpisodes,   \* ComingSoonEpisode collection: _id -> [st, seriesId, csId, episode, sched]
  series,       \* Series collection: set of [id, src]; src = the ComingSoonSeries copied
  episodes,     \* Episode collection: set of [seriesId, episode, src, by]; src = the
                \* ComingSoonEpisode copied, by = the promoter ("S" or "E") that saved it
  transferLog,  \* SeriesTransferLog collection, in insertion order
  nextId,       \* next fresh Series _id
  run,          \* per scheduler callback: the locals of the promoter call in flight
  faults,       \* number of store operations that have thrown so far
  hist,         \* store and clock at the end of the last fault-free call of each promoter
  ops           \* number of admin requests that have changed the store so far

vars == <<now, csSeries, csEpisodes, series, episodes, transferLog, nextId, run, faults, hist, ops>>

\* ---------------------------------------------------------------- documents
NoDoc == [id |-> None, seriesId |-> None, csId |-> None, episode |-> 0]

SeriesDoc(c) == [id |-> c, seriesId |-> None, csId |-> None, episode |-> 0]

EpisodeDoc(e) ==
  [id |-> e, seriesId |-> csEpisodes[e].seriesId, csId |-> csEpisodes[e].csId,
   episode |-> csEpisodes[e].episode]

RECURSIVE SortedSeq(_)
\* documents come back in insertion (_id) order
SortedSeq(S) ==
  IF S = {} THEN <<>>
  ELSE LET m == CHOOSE x \in S : \A y \in S : x <= y
       IN <<m>> \o SortedSeq(S \ {m})

SeqMap(Op(_), s) == [i \in 1..Len(s) |-> Op(s[i])]

Range(s) == {s[i] : i \in 1..Len(s)}

\* the collections as one value
Store == [cs |-> csSeries, ce |-> csEpisodes, se |-> series, ep |-> episodes, tl |-> transferLog]

LiveStore == [se |-> series, ep |-> episodes, tl |-> transferLog]

NoSnap == [clean |-> FALSE, work |-> FALSE, now |-> 0, store |-> <<>>]

\* ---------------------------------------------------------------- queries
\* ComingSoonSeries.find({status: 'pending', scheduledReleaseDate: {$lte: now}})
DueSeries(t) == {c \in CSIds : csSeries[c].st = "pending" /\ csSeries[c].sched <= t}

\* ComingSoonEpisode.find({status: 'pending', scheduledReleaseDate: {$lte: now}})
DueEpisodes(t) == {e \in EpIds : csEpisodes[e].st = "pending" /\ csEpisodes[e].sched <= t}

EpisodesOfSeries_DueOnly(sid, c) ==
  {e \in EpIds : /\ csEpisodes[e].st = "pending"
                 /\ csEpisodes[e].sched <= now
                 /\ (csEpisodes[e].seriesId = sid \/ csEpisodes[e].csId = c)}

\* ComingSoonEpisode.find({$or: [{seriesId: newSeries._id}, {comingSoonSeriesId: cs._id}], status: 'pending'})
EpisodesOfSeries(sid, c) ==
  {e \in EpIds : /\ csEpisodes[e].st = "pending"
                 /\ (csEpisodes[e].seriesId = sid \/ csEpisodes[e].csId = c)}

EpisodeExists_Always(sid, n) == TRUE

\* Episode.findOne({seriesId, episode})
EpisodeExists(sid, n) == \E le \in episodes : le.seriesId = sid /\ le.episode = n

\* the existing Episode that findOne returned for the pending document id, if any
Found(id, sid, n) == {[id |-> id, le |-> le] : le \in {x \in episodes : x.seriesId = sid /\ x.episode = n}}

DuplicateKey_NoIndex(sid, n) == FALSE

\* unique index {seriesId: 1, episode: 1} of the Episode collection
DuplicateKey(sid, n) == \E le \in episodes : le.seriesId = sid /\ le.episode = n

TransferLogsOf_AnySeries(c) == 1..Len(transferLog)

\* SeriesTransferLog.findOne({comingSoonSeriesId}): the entries the query matches
TransferLogsOf(c) == {i \in 1..Len(transferLog) : transferLog[i].csId = c}

Logged_Upsert(c, sid) ==
  IF \E i \in 1..Len(transferLog) : transferLog[i].csId = c
  THEN [i \in 1..Len(transferLog) |->
          IF transferLog[i].csId = c THEN [csId |-> c, seriesId |-> sid] ELSE transferLog[i]]
  ELSE Append(transferLog, [csId |-> c, seriesId |-> sid])

Logged_Nothing(c, sid) == transferLog

\* SeriesTransferLog.create({comingSoonSeriesId: c, seriesId: sid, ...})
Logged(c, sid) == Append(transferLog, [csId |-> c, seriesId |-> sid])

Relinked_BySeriesIdToo(c, sid) ==
  [e \in EpIds |->
     IF csEpisodes[e].st # "deleted" /\ (csEpisodes[e].csId = c \/ csEpisodes[e].seriesId # None)
     THEN [csEpisodes[e] EXCEPT !.seriesId = sid]
     ELSE csEpisodes[e]]

\* ComingSoonEpisode.updateMany({comingSoonSeriesId: c}, {$set: {seriesId: sid}})
Relinked(c, sid) ==
  [e \in EpIds |->
     IF csEpisodes[e].st # "deleted" /\ csEpisodes[e].csId = c
     THEN [csEpisodes[e] EXCEPT !.seriesId = sid]
     ELSE csEpisodes[e]]

Resolved_NotPersisted(id, sid) == csEpisodes

\* ComingSoonEpisode.findByIdAndUpdate(_id, {seriesId: finalSeriesId})
Resolved(id, sid) ==
  IF csEpisodes[id].st = "deleted" THEN csEpisodes ELSE [csEpisodes EXCEPT ![id].seriesId = sid]

\* findByIdAndUpdate(_id, {status: 'released'}): no document, no change, no error
MarkReleased(coll, id) ==
  IF coll[id].st = "deleted" THEN coll ELSE [coll EXCEPT ![id].st = "released"]

Deleted_Noop(coll, id) == coll

\* findByIdAndDelete(_id)
Deleted(coll, id) == [coll EXCEPT ![id].st = "deleted"]

\* a ComingSoonEpisode _id no document has been created with yet
AbsentDoc == [st |-> "absent", seriesId |-> None, csId |-> None, episode |-> 0, sched |-> 0]

\* the document exists in its collection
Present(d) == d.st \in {"pending", "released"}

\* ---------------------------------------------------------------- a promoter call
IdleRun ==
  [pc |-> "idle", now |-> 0, queue |-> <<>>, due |-> <<>>, cur |-> NoDoc,
   newSeries |-> None, eps |-> <<>>, ep |-> NoDoc, final |-> None,
   errors |-> <<>>, released |-> <<>>,
   \* history of the call, for the statement of the properties
   flt |-> <<>>,        \* the store operations that threw: [id, ep, at, kind]
   dups |-> {},         \* [id, le]: documents whose Episode was found to exist already
   repeat |-> FALSE,    \* the call follows a fault-free call of the same promoter, same now, same store
   after |-> FALSE,     \* ... and that call had released something
   start |-> <<>>]      \* the collections at the entry of the call

\* entry of releaseComingSoonSeries / releaseComingSoonEpisodes: now = new Date()
StartRun(kind) ==
  [IdleRun EXCEPT !.pc = IF kind = "S" THEN "s_find" ELSE "e_find",
                  !.now = now,
                  !.repeat = hist[kind].clean /\ hist[kind].now = now /\ hist[kind].store = Store,
                  !.after = hist[kind].work,
                  !.start = Store]

\* what the finished call leaves for the comparison with a call that follows it
EndSnap(r) ==
  IF r.flt = <<>>
  THEN [clean |-> TRUE, work |-> r.released # <<>>, now |-> r.now, store |-> Store]
  ELSE NoSnap

Flt(r, id, kind) == Append(r.flt, [id |-> id, ep |-> r.ep.id, at |-> r.pc, kind |-> kind])

SCatch_NeverBreak(r, kind) == [r EXCEPT !.pc = "s_loop", !.errors = Append(r.errors, r.cur.id)]

\* catch of the series loop (lines 284-296): ENOSPC breaks, any other error is recorded
SCatch(r, kind) ==
  IF kind = "ENOSPC"
  THEN [r EXCEPT !.pc = "s_done"]
  ELSE [r EXCEPT !.pc = "s_loop", !.errors = Append(r.errors, r.cur.id)]

\* catch of the nested episode loop (lines 279-281): logs and goes on
SEpCatch(r, kind) == [r EXCEPT !.pc = "s_ep_loop"]

ECatch_BreakAlways(r, kind) == [r EXCEPT !.pc = "e_done"]

\* catch of the episode loop (lines 109-121)
ECatch(r, kind) ==
  IF kind = "ENOSPC"
  THEN [r EXCEPT !.pc = "e_done"]
  ELSE [r EXCEPT !.pc = "e_loop", !.errors = Append(r.errors, r.cur.id)]

OuterCatch_Rethrow(r, kind) == [r EXCEPT !.pc = "rejected"]

\* outer catch of a promoter (lines 131-133, 306-308): logs, and the call returns
OuterCatch(r, kind) ==
  [r EXCEPT !.pc = IF r.pc \in {"s_find", "s_info"} THEN "s_done" ELSE "e_done"]

\* ---------------------------------------------------------------- initial states
\* documents as the upload endpoints store them: status pending, a release date in
\* the future, at least one of seriesId / comingSoonSeriesId, and the unique index
\* {comingSoonSeriesId, episode} of ComingSoonEpisode
EpisodeLinks == {<<PreLive, None>>} \cup {<<None, c>> : c \in CSIds} \cup {<<PreLive, c>> : c \in CSIds}

UniqueCsIndex(ce) ==
  \A e1, e2 \in EpIds :
    (e1 # e2 /\ ce[e1].st # "deleted" /\ ce[e2].st # "deleted" /\ ce[e1].csId # None
       /\ ce[e1].csId = ce[e2].csId) => ce[e1].episode # ce[e2].episode

\* episode numbers are only ever compared for equality: the first document has
\* number 1 and each later one an earlier number or the next unused one
CanonicalNumbers(num) ==
  \A e \in EpIds : num[e] = 1 \/ \E d \in EpIds : d < e /\ num[d] >= num[e] - 1

\* a ComingSoonSeries is still pending, or was released before the first state:
\* its document is gone, its Series and its transfer log entry exist
InitSeries == [st : {"pending"}, sched : 1..MaxTime] \cup {[st |-> "deleted", sched |-> 0]}

ReleasedBefore == {c \in CSIds : csSeries[c].st = "deleted"}

\* the ComingSoonEpisode documents uploaded before the first state
InitEpisodes ==
  /\ \E link \in [EpIds -> EpisodeLinks], num \in [EpIds -> 1..MaxEpNum], at \in [EpIds -> 1..MaxTime] :
       csEpisodes = [e \in EpIds |->
                       [st |-> "pending", seriesId |-> link[e][1], csId |-> link[e][2],
                        episode |-> num[e], sched |-> at[e]]]
  /\ UniqueCsIndex(csEpisodes)
  /\ CanonicalNumbers([e \in EpIds |-> csEpisodes[e].episode])

InitSeriesStore ==
  /\ csSeries \in [CSIds -> InitSeries]
  /\ series = {[id |-> PreLive, src |-> None]} \cup {[id |-> PreLive + c, src |-> c] : c \in ReleasedBefore}
  /\ episodes = {}
  /\ transferLog = SeqMap(LAMBDA c : [csId |-> c, seriesId |-> PreLive + c], SortedSeq(ReleasedBefore))
  /\ nextId = PreLive + NumCS + 1
  /\ faults = 0
  /\ hist = [k \in {"S", "E"} |-> NoSnap]
  /\ ops = 0

\* the start-up calls are over, nothing is due yet
InitStore == InitSeriesStore /\ InitEpisodes

Init ==
  /\ now = 0
  /\ InitStore
  /\ run = [p \in Procs |-> IdleRun]

\* startCronJob has just returned, with a backlog from the time the process was
\* down: releaseComingSoonSeries() and releaseComingSoonEpisodes() have both been
\* called, neither awaited, and each has sent its due-set query
InitBoot ==
  /\ now \in 1..MaxTime
  /\ InitStore
  /\ run = [p \in Procs |-> IF p = "bootS" THEN StartRun("S")
                             ELSE IF p = "bootE" THEN StartRun("E") ELSE IdleRun]

\* ---------------------------------------------------------------- scheduler
\* the clock is read once, at the entry of a promoter (now = new Date()); an advance
\* while a promoter runs is seen at the next entry only, so it is taken there
AdvanceClock ==
  /\ now < MaxTime
  /\ \A p \in Procs : run[p].pc \in {"idle", "s_done"}
  /\ now' = now + 1
  /\ hist' = [k \in {"S", "E"} |-> NoSnap]
  /\ UNCHANGED <<csSeries, csEpisodes, series, episodes, transferLog, nextId, run, faults, ops>>

\* cron.schedule('* * * * *', ...): the callback starts with releaseComingSoonSeries()
TickStart(p) ==
  /\ run[p].pc = "idle"
  /\ run' = [run EXCEPT ![p] = StartRun("S")]
  /\ UNCHANGED <<now, csSeries, csEpisodes, series, episodes, transferLog, nextId, faults, hist, ops>>

\* await releaseComingSoonSeries() has returned: releaseComingSoonEpisodes() is called
TickEpisodes(p) ==
  /\ run[p].pc = "s_done"
  /\ hist' = [hist EXCEPT !["S"] = EndSnap(run[p])]
  /\ run' = [run EXCEPT ![p] = StartRun("E")]
  /\ UNCHANGED <<now, csSeries, csEpisodes, series, episodes, transferLog, nextId, faults, ops>>

TickEnd(p) ==
  /\ run[p].pc = "e_done"
  /\ hist' = [hist EXCEPT !["E"] = EndSnap(run[p])]
  /\ run' = [run EXCEPT ![p] = IdleRun]
  /\ UNCHANGED <<now, csSeries, csEpisodes, series, episodes, transferLog, nextId, faults, ops>>

\* a start-up call has returned; nothing waits for its promise
BootEnd(p) ==
  /\ run[p].pc \in {"s_done", "e_done"}
  /\ run' = [run EXCEPT ![p] = IdleRun]
  /\ UNCHANGED <<now, csSeries, csEpisodes, series, episodes, transferLog, nextId, faults, hist, ops>>

\* ---------------------------------------------------------------- Series Promoter
S_Find(p) ==
  LET r == run[p]
      q == SeqMap(SeriesDoc, SortedSeq(DueSeries(r.now)))
  IN /\ r.pc = "s_find"
     /\ run' = [run EXCEPT ![p] = [r EXCEPT !.pc = IF q = <<>> THEN "s_info" ELSE "s_loop",
                                           !.queue = q, !.due = q]]
     /\ UNCHANGED <<now, csSeries, csEpisodes, series, episodes, transferLog, nextId, faults, hist, ops>>

\* nothing is due: countDocuments and findOne of the series scheduled later, for the log line
S_Info(p) ==
  LET r == run[p]
  IN /\ r.pc = "s_info"
     /\ run' = [run EXCEPT ![p] = [r EXCEPT !.pc = "s_done"]]
     /\ UNCHANGED <<now, csSeries, csEpisodes, series, episodes, transferLog, nextId, faults, hist, ops>>

S_Loop(p) ==
  LET r == run[p]
  IN /\ r.pc = "s_loop"
     /\ run' = [run EXCEPT ![p] =
                  IF r.queue = <<>>
                  THEN [r EXCEPT !.pc = "s_done"]
                  ELSE [r EXCEPT !.pc = "s_save", !.cur = Head(r.queue), !.queue = Tail(r.queue),
                                 !.newSeries = None, !.eps = <<>>, !.ep = NoDoc]]
     /\ UNCHANGED <<now, csSeries, csEpisodes, series, episodes, transferLog, nextId, faults, hist, ops>>

S_Save(p) ==
  LET r == run[p]
  IN /\ r.pc = "s_save"
     /\ series' = series \cup {[id |-> nextId, src |-> r.cur.id]}
     /\ nextId' = nextId + 1
     /\ run' = [run EXCEPT ![p] = [r EXCEPT !.pc = "s_relink", !.newSeries = nextId]]
     /\ UNCHANGED <<now, csSeries, csEpisodes, episodes, transferLog, faults, hist, ops>>

S_Relink(p) ==
  LET r == run[p]
  IN /\ r.pc = "s_relink"
     /\ csEpisodes' = Relinked(r.cur.id, r.newSeries)
     /\ run' = [run EXCEPT ![p] = [r EXCEPT !.pc = "s_log"]]
     /\ UNCHANGED <<now, csSeries, series, episodes, transferLog, nextId, faults, hist, ops>>

S_Log(p) ==
  LET r == run[p]
  IN /\ r.pc = "s_log"
     /\ transferLog' = Logged(r.cur.id, r.newSeries)
     /\ run' = [run EXCEPT ![p] = [r EXCEPT !.pc = "s_mark"]]
     /\ UNCHANGED <<now, csSeries, csEpisodes, series, episodes, nextId, faults, hist, ops>>

S_Mark(p) ==
  LET r == run[p]
  IN /\ r.pc = "s_mark"
     /\ csSeries' = MarkReleased(csSeries, r.cur.id)
     /\ run' = [run EXCEPT ![p] = [r EXCEPT !.pc = "s_delete"]]
     /\ UNCHANGED <<now, csEpisodes, series, episodes, transferLog, nextId, faults, hist, ops>>

S_Delete(p) ==
  LET r == run[p]
  IN /\ r.pc = "s_delete"
     /\ csSeries' = Deleted(csSeries, r.cur.id)
     /\ run' = [run EXCEPT ![p] = [r EXCEPT !.pc = "s_ep_find",
                                           !.released = Append(r.released, r.newSeries)]]
     /\ UNCHANGED <<now, csEpisodes, series, episodes, transferLog, nextId, faults, hist, ops>>

S_EpFind(p) ==
  LET r == run[p]
  IN /\ r.pc = "s_ep_find"
     /\ run' = [run EXCEPT ![p] =
                  [r EXCEPT !.pc = "s_ep_loop",
                            !.eps = SeqMap(EpisodeDoc, SortedSeq(EpisodesOfSeries(r.newSeries, r.cur.id)))]]
     /\ UNCHANGED <<now, csSeries, csEpisodes, series, episodes, transferLog, nextId, faults, hist, ops>>

S_EpLoop(p) ==
  LET r == run[p]
  IN /\ r.pc = "s_ep_loop"
     /\ run' = [run EXCEPT ![p] =
                  IF r.eps = <<>>
                  THEN [r EXCEPT !.pc = "s_loop"]
                  ELSE [r EXCEPT !.pc = "s_ep_check", !.ep = Head(r.eps), !.eps = Tail(r.eps)]]
     /\ UNCHANGED <<now, csSeries, csEpisodes, series, episodes, transferLog, nextId, faults, hist, ops>>

S_EpCheck(p) ==
  LET r == run[p]
  IN /\ r.pc = "s_ep_check"
     /\ run' = [run EXCEPT ![p] =
                  [r EXCEPT !.pc = IF EpisodeExists(r.newSeries, r.ep.episode)
                                   THEN "s_ep_dup_mark" ELSE "s_ep_save",
                            !.dups = r.dups \cup Found(r.ep.id, r.newSeries, r.ep.episode)]]
     /\ UNCHANGED <<now, csSeries, csEpisodes, series, episodes, transferLog, nextId, faults, hist, ops>>

\* newEpisode.save(): the unique index {seriesId, episode} rejects a second document
S_EpSave(p) ==
  LET r == run[p]
  IN /\ r.pc = "s_ep_save"
     /\ IF DuplicateKey(r.newSeries, r.ep.episode)
        THEN /\ run' = [run EXCEPT ![p] = [SEpCatch(r, "E11000") EXCEPT !.flt = Flt(r, r.cur.id, "E11000")]]
             /\ UNCHANGED episodes
        ELSE /\ episodes' = episodes \cup {[seriesId |-> r.newSeries, episode |-> r.ep.episode,
                                            src |-> r.ep.id, by |-> "S"]}
             /\ run' = [run EXCEPT ![p] = [r EXCEPT !.pc = "s_ep_mark"]]
     /\ UNCHANGED <<now, csSeries, csEpisodes, series, transferLog, nextId, faults, hist, ops>>

S_EpMark(p) ==
  LET r == run[p]
  IN /\ r.pc \in {"s_ep_mark", "s_ep_dup_mark"}
     /\ csEpisodes' = MarkReleased(csEpisodes, r.ep.id)
     /\ run' = [run EXCEPT ![p] = [r EXCEPT !.pc = IF r.pc = "s_ep_mark" THEN "s_ep_delete"
                                                   ELSE "s_ep_dup_delete"]]
     /\ UNCHANGED <<now, csSeries, series, episodes, transferLog, nextId, faults, hist, ops>>

S_EpDelete(p) ==
  LET r == run[p]
  IN /\ r.pc \in {"s_ep_delete", "s_ep_dup_delete"}
     /\ csEpisodes' = Deleted(csEpisodes, r.ep.id)
     /\ run' = [run EXCEPT ![p] = [r EXCEPT !.pc = "s_ep_loop"]]
     /\ UNCHANGED <<now, csSeries, series, episodes, transferLog, nextId, faults, hist, ops>>

\* ---------------------------------------------------------------- store failures
SItemPcs == {"s_save", "s_relink", "s_log", "s_mark", "s_delete", "s_ep_find"}
SEpPcs == {"s_ep_check", "s_ep_save", "s_ep_mark", "s_ep_dup_mark", "s_ep_delete", "s_ep_dup_delete"}
EItemPcs == {"e_lookup", "e_persist", "e_check", "e_save", "e_mark", "e_dup_mark", "e_delete", "e_dup_delete"}
ErrorKinds == {"ENOSPC", "ERR"}

\* a query outside the loops throws (the due-set query, the queries for the log line)
FindFault(p) ==
  LET r == run[p]
  IN /\ r.pc \in {"s_find", "s_info", "e_find"}
     /\ faults < MaxFaults
     /\ faults' = faults + 1
     /\ \E kind \in ErrorKinds :
          run' = [run EXCEPT ![p] = [OuterCatch(r, kind) EXCEPT !.flt = Flt(r, None, kind)]]
     /\ UNCHANGED <<now, csSeries, csEpisodes, series, episodes, transferLog, nextId, hist, ops>>

\* an await of the series loop body throws
S_Fault(p) ==
  LET r == run[p]
  IN /\ r.pc \in SItemPcs
     /\ faults < MaxFaults
     /\ faults' = faults + 1
     /\ \E kind \in ErrorKinds :
          run' = [run EXCEPT ![p] = [SCatch(r, kind) EXCEPT !.flt = Flt(r, r.cur.id, kind)]]
     /\ UNCHANGED <<now, csSeries, csEpisodes, series, episodes, transferLog, nextId, hist, ops>>

\* an await of the nested episode loop body throws
S_EpFault(p) ==
  LET r == run[p]
  IN /\ r.pc \in SEpPcs
     /\ faults < MaxFaults
     /\ faults' = faults + 1
     /\ \E kind \in ErrorKinds :
          run' = [run EXCEPT ![p] = [SEpCatch(r, kind) EXCEPT !.flt = Flt(r, r.cur.id, kind)]]
     /\ UNCHANGED <<now, csSeries, csEpisodes, series, episodes, transferLog, nextId, hist, ops>>

\* ---------------------------------------------------------------- Episode Promoter
E_Find(p) ==
  LET r == run[p]
      q == SeqMap(EpisodeDoc, SortedSeq(DueEpisodes(r.now)))
  IN /\ r.pc = "e_find"
     /\ run' = [run EXCEPT ![p] = [r EXCEPT !.pc = IF q = <<>> THEN "e_done" ELSE "e_loop",
                                           !.queue = q, !.due = q]]
     /\ UNCHANGED <<now, csSeries, csEpisodes, series, episodes, transferLog, nextId, faults, hist, ops>>

\* where the loop body first awaits for a document (lines 35-64)
EpisodeEntry(d) ==
  IF d.seriesId = None /\ d.csId # None THEN "e_lookup"
  ELSE IF d.seriesId = None THEN "e_loop"
  ELSE "e_check"

E_Loop(p) ==
  LET r == run[p]
  IN /\ r.pc = "e_loop"
     /\ run' = [run EXCEPT ![p] =
                  IF r.queue = <<>>
                  THEN [r EXCEPT !.pc = "e_done"]
                  ELSE [r EXCEPT !.pc = EpisodeEntry(Head(r.queue)), !.cur = Head(r.queue),
                                 !.queue = Tail(r.queue), !.final = Head(r.queue).seriesId]]
     /\ UNCHANGED <<now, csSeries, csEpisodes, series, episodes, transferLog, nextId, faults, hist, ops>>

E_Lookup_Fallback(p) ==
  LET r == run[p]
  IN /\ r.pc = "e_lookup"
     /\ IF TransferLogsOf(r.cur.csId) = {}
        THEN run' = [run EXCEPT ![p] = [r EXCEPT !.pc = "e_check", !.final = r.cur.csId]]
        ELSE \E i \in TransferLogsOf(r.cur.csId) :
               run' = [run EXCEPT ![p] = [r EXCEPT !.pc = "e_persist", !.final = transferLog[i].seriesId]]
     /\ UNCHANGED <<now, csSeries, csEpisodes, series, episodes, transferLog, nextId, faults, hist, ops>>

E_Lookup(p) ==
  LET r == run[p]
  IN /\ r.pc = "e_lookup"
     /\ IF TransferLogsOf(r.cur.csId) = {}
        THEN run' = [run EXCEPT ![p] = [r EXCEPT !.pc = "e_loop"]]
        ELSE \E i \in TransferLogsOf(r.cur.csId) :
               run' = [run EXCEPT ![p] = [r EXCEPT !.pc = "e_persist", !.final = transferLog[i].seriesId]]
     /\ UNCHANGED <<now, csSeries, csEpisodes, series, episodes, transferLog, nextId, faults, hist, ops>>

E_Persist_Continue(p) ==
  LET r == run[p]
  IN /\ r.pc = "e_persist"
     /\ csEpisodes' = Resolved(r.cur.id, r.final)
     /\ run' = [run EXCEPT ![p] = [r EXCEPT !.pc = "e_loop"]]
     /\ UNCHANGED <<now, csSeries, series, episodes, transferLog, nextId, faults, hist, ops>>

E_Persist(p) ==
  LET r == run[p]
  IN /\ r.pc = "e_persist"
     /\ csEpisodes' = Resolved(r.cur.id, r.final)
     /\ run' = [run EXCEPT ![p] = [r EXCEPT !.pc = "e_check"]]
     /\ UNCHANGED <<now, csSeries, series, episodes, transferLog, nextId, faults, hist, ops>>

E_Check(p) ==
  LET r == run[p]
  IN /\ r.pc = "e_check"
     /\ run' = [run EXCEPT ![p] =
                  [r EXCEPT !.pc = IF EpisodeExists(r.final, r.cur.episode)
                                   THEN "e_dup_mark" ELSE "e_save",
                            !.dups = r.dups \cup Found(r.cur.id, r.final, r.cur.episode)]]
     /\ UNCHANGED <<now, csSeries, csEpisodes, series, episodes, transferLog, nextId, faults, hist, ops>>

E_Save(p) ==
  LET r == run[p]
  IN /\ r.pc = "e_save"
     /\ IF DuplicateKey(r.final, r.cur.episode)
        THEN /\ run' = [run EXCEPT ![p] = [ECatch(r, "E11000") EXCEPT !.flt = Flt(r, r.cur.id, "E11000")]]
             /\ UNCHANGED episodes
        ELSE /\ episodes' = episodes \cup {[seriesId |-> r.final, episode |-> r.cur.episode,
                                            src |-> r.cur.id, by |-> "E"]}
             /\ run' = [run EXCEPT ![p] = [r EXCEPT !.pc = "e_mark"]]
     /\ UNCHANGED <<now, csSeries, csEpisodes, series, transferLog, nextId, faults, hist, ops>>

E_Mark(p) ==
  LET r == run[p]
  IN /\ r.pc \in {"e_mark", "e_dup_mark"}
     /\ csEpisodes' = MarkReleased(csEpisodes, r.cur.id)
     /\ run' = [run EXCEPT ![p] = [r EXCEPT !.pc = IF r.pc = "e_mark" THEN "e_delete" ELSE "e_dup_delete"]]
     /\ UNCHANGED <<now, csSeries, series, episodes, transferLog, nextId, faults, hist, ops>>

E_Delete(p) ==
  LET r == run[p]
  IN /\ r.pc \in {"e_delete", "e_dup_delete"}
     /\ csEpisodes' = Deleted(csEpisodes, r.cur.id)
     /\ run' = [run EXCEPT ![p] =
                  [r EXCEPT !.pc = "e_loop",
                            !.released = IF r.pc = "e_delete" THEN Append(r.released, r.cur.id)
                                         ELSE r.released]]
     /\ UNCHANGED <<now, csSeries, series, episodes, transferLog, nextId, faults, hist, ops>>

\* an await of the episode loop body throws
E_Fault(p) ==
  LET r == run[p]
  IN /\ r.pc \in EItemPcs
     /\ faults < MaxFaults
     /\ faults' = faults + 1
     /\ \E kind \in ErrorKinds :
          run' = [run EXCEPT ![p] = [ECatch(r, kind) EXCEPT !.flt = Flt(r, r.cur.id, kind)]]
     /\ UNCHANGED <<now, csSeries, csEpisodes, series, episodes, transferLog, nextId, hist, ops>>

\* ---------------------------------------------------------------- admin requests
\* new ComingSoonEpisode(...): the _id of the document a save creates
FreshEpisodeId == CHOOSE e \in EpIds : csEpisodes[e].st = "absent" /\ \A d \in 1..(e - 1) : csEpisodes[d].st # "absent"

\* ComingSoonEpisode.findOne({seriesId, episode}) / ({comingSoonSeriesId, episode})
PendingWithSeries(sid, n) == \E e \in EpIds : Present(csEpisodes[e]) /\ csEpisodes[e].seriesId = sid /\ csEpisodes[e].episode = n

PendingWithCs(cid, n) == \E e \in EpIds : Present(csEpisodes[e]) /\ csEpisodes[e].csId = cid /\ csEpisodes[e].episode = n

\* the checks both upload handlers make on the request before they look at a file
UploadRejected(sid, cid, at) ==
  \/ sid = None /\ cid = None
  \/ at <= now
  \/ sid # None /\ sid \notin {x.id : x \in series}
  \/ sid = None /\ cid # None /\ ~Present(csSeries[cid])

\* the references uploadBatchComingSoonEpisodes stores: comingSoonSeriesId if given, else seriesId
BatchLinks(sid, cid) == IF cid # None THEN <<None, cid>> ELSE <<sid, None>>

\* the references uploadComingSoonEpisode stores: each one that the request carries
SingleLinks(sid, cid) == <<sid, cid>>

NewDoc(link, n, at) ==
  [st |-> "pending", seriesId |-> link[1], csId |-> link[2], episode |-> n, sched |-> at]

\* POST /api/coming-soon-episodes
UploadComingSoonEpisode ==
  \E sid \in {None, nextId} \cup {x.id : x \in series}, cid \in {None} \cup CSIds,
     n \in 1..MaxEpNum, at \in 0..MaxTime :
    /\ ops < MaxOps
    /\ \E e \in EpIds : csEpisodes[e].st = "absent"
    /\ ~UploadRejected(sid, cid, at)
    /\ ~(IF sid # None THEN PendingWithSeries(sid, n) ELSE PendingWithCs(cid, n))
    /\ ~(sid # None /\ EpisodeExists(sid, n))
    /\ ~(cid # None /\ PendingWithCs(cid, n))
    /\ csEpisodes' = [csEpisodes EXCEPT ![FreshEpisodeId] = NewDoc(SingleLinks(sid, cid), n, at)]
    /\ ops' = ops + 1
    /\ UNCHANGED <<now, csSeries, series, episodes, transferLog, nextId, run, faults, hist>>

\* POST /api/coming-soon-episodes/batch, one file: a file whose number is taken is
\* put on the error list and nothing is stored
UploadBatchComingSoonEpisodes ==
  \E sid \in {None, nextId} \cup {x.id : x \in series}, cid \in {None} \cup CSIds,
     n \in 1..MaxEpNum, at \in 0..MaxTime :
    /\ ops < MaxOps
    /\ \E e \in EpIds : csEpisodes[e].st = "absent"
    /\ ~UploadRejected(sid, cid, at)
    /\ ~(IF cid # None THEN PendingWithCs(cid, n) ELSE PendingWithSeries(sid, n))
    /\ csEpisodes' = [csEpisodes EXCEPT ![FreshEpisodeId] = NewDoc(BatchLinks(sid, cid), n, at)]
    /\ ops' = ops + 1
    /\ UNCHANGED <<now, csSeries, series, episodes, transferLog, nextId, run, faults, hist>>

\* PUT /api/coming-soon-episodes/:id with episode and scheduledReleaseDate (0: not sent)
UpdatedEpisode(e, n, at) ==
  [csEpisodes EXCEPT ![e].episode = IF n = 0 THEN @ ELSE n,
                     ![e].sched = IF at = 0 THEN @ ELSE at]

UpdateComingSoonEpisode ==
  \E e \in EpIds, n \in 0..MaxEpNum, at \in 0..MaxTime :
    /\ ops < MaxOps
    /\ Present(csEpisodes[e])
    /\ at = 0 \/ at > now
    /\ UniqueCsIndex(UpdatedEpisode(e, n, at))
    /\ UpdatedEpisode(e, n, at) # csEpisodes
    /\ csEpisodes' = UpdatedEpisode(e, n, at)
    /\ ops' = ops + 1
    /\ UNCHANGED <<now, csSeries, series, episodes, transferLog, nextId, run, faults, hist>>

UpdatedSeries_WithStatus(c, at) == [csSeries EXCEPT ![c].sched = at, ![c].st = "pending"]

\* PUT /api/coming-soon-series/:id with scheduledReleaseDate
UpdatedSeries(c, at) == [csSeries EXCEPT ![c].sched = at]

UpdateComingSoonSeries ==
  \E c \in CSIds, at \in 1..MaxTime :
    /\ ops < MaxOps
    /\ Present(csSeries[c])
    /\ at > now
    /\ UpdatedSeries(c, at) # csSeries
    /\ csSeries' = UpdatedSeries(c, at)
    /\ ops' = ops + 1
    /\ UNCHANGED <<now, csEpisodes, series, episodes, transferLog, nextId, run, faults, hist>>

\* DELETE /api/coming-soon-episodes/:id
DeleteComingSoonEpisode ==
  \E e \in EpIds :
    /\ ops < MaxOps
    /\ Present(csEpisodes[e])
    /\ csEpisodes' = Deleted(csEpisodes, e)
    /\ ops' = ops + 1
    /\ UNCHANGED <<now, csSeries, series, episodes, transferLog, nextId, run, faults, hist>>

\* DELETE /api/coming-soon-series/:id
DeleteComingSoonSeries ==
  \E c \in CSIds :
    /\ ops < MaxOps
    /\ Present(csSeries[c])
    /\ csSeries' = Deleted(csSeries, c)
    /\ ops' = ops + 1
    /\ UNCHANGED <<now, csEpisodes, series, episodes, transferLog, nextId, run, faults, hist>>

\* GET /api/series-transfer-logs: countDocuments, find
GetTransferLogs == UNCHANGED vars

\* GET /api/series-transfer-logs/:id: findById
GetTransferLogById == \E i \in 1..Len(transferLog) : UNCHANGED vars

ReadStep == GetTransferLogs \/ GetTransferLogById

AdminStep ==
  \/ UploadComingSoonEpisode \/ UploadBatchComingSoonEpisodes
  \/ UpdateComingSoonEpisode \/ UpdateComingSoonSeries
  \/ DeleteComingSoonEpisode \/ DeleteComingSoonSeries

\* ---------------------------------------------------------------- specification
SeriesStep(p) ==
  \/ S_Find(p) \/ S_Info(p) \/ S_Loop(p) \/ S_Save(p) \/ S_Relink(p) \/ S_Log(p) \/ S_Mark(p) \/ S_Delete(p)
  \/ S_EpFind(p) \/ S_EpLoop(p) \/ S_EpCheck(p) \/ S_EpSave(p) \/ S_EpMark(p) \/ S_EpDelete(p)

EpisodeStep(p) ==
  \/ E_Find(p) \/ E_Loop(p) \/ E_Lookup(p) \/ E_Persist(p) \/ E_Check(p) \/ E_Save(p)
  \/ E_Mark(p) \/ E_Delete(p)

FaultStep(p) == FindFault(p) \/ S_Fault(p) \/ S_EpFault(p) \/ E_Fault(p)

TickStep(p) == TickStart(p) \/ TickEpisodes(p) \/ TickEnd(p)

Next ==
  \/ AdvanceClock
  \/ \E p \in TickProcs : TickStep(p) \/ SeriesStep(p) \/ EpisodeStep(p) \/ FaultStep(p)
  \/ ReadStep

Spec == Init /\ [][Next]_vars

\* the store never fails, the clock goes on and a callback that can take a step does
PromoterStep == \E p \in TickProcs : TickStep(p) \/ SeriesStep(p) \/ EpisodeStep(p)

NextNoFault == AdvanceClock \/ PromoterStep

FairSpec ==
  /\ Init
  /\ [][NextNoFault]_vars
  /\ SF_vars(AdvanceClock)
  /\ WF_vars(PromoterStep)

\* every pending document falls due at the same minute
InitSameMinute ==
  /\ Init
  /\ \A c \in CSIds : csSeries[c].sched <= 1
  /\ \A e \in EpIds : csEpisodes[e].sched = 1

\* a store operation may throw, MaxFaults times in all; after that the store works,
\* the clock goes on and the callback runs every minute
FairFaultSpec ==
  /\ InitSameMinute
  /\ [][Next]_vars
  /\ SF_vars(AdvanceClock)
  /\ WF_vars(PromoterStep)

\* the two start-up calls, interleaved at their awaits
NextBoot == \E p \in BootProcs : BootEnd(p) \/ SeriesStep(p) \/ EpisodeStep(p)

SpecBoot == InitBoot /\ [][NextBoot]_vars

\* the cron callback fires at the next full minute whatever the start-up calls are
\* doing: its Series Promoter call and the one of the start-up, interleaved at their
\* awaits, while the due-set query of the start-up Episode Promoter is still out
NextOverlap ==
  \/ \E p \in {"bootS"} : BootEnd(p) \/ SeriesStep(p)
  \/ \E p \in TickProcs : TickStart(p) \/ SeriesStep(p)

\* ... with a backlog of at most one due ComingSoonSeries
InitOverlap == InitBoot /\ Cardinality(DueSeries(now)) <= 1

SpecOverlap == InitOverlap /\ [][NextOverlap]_vars

\* no ComingSoonEpisode has been uploaded yet
InitAdmin ==
  /\ now = 0
  /\ InitSeriesStore
  /\ csEpisodes = [e \in EpIds |-> AbsentDoc]
  /\ run = [p \in Procs |-> IdleRun]

\* the cron callback and the admin requests, a request served between two awaits
NextAdmin == AdvanceClock \/ PromoterStep \/ AdminStep \/ ReadStep

SpecAdmin == InitAdmin /\ [][NextAdmin]_vars

\* no ComingSoonEpisode yet, one ComingSoonSeries released earlier, the other
\* pending and due at the first minute
InitOnePending ==
  /\ InitAdmin
  /\ Cardinality(ReleasedBefore) = 1
  /\ \A c \in CSIds : csSeries[c].sched <= 1

\* the cron callback, uploads of episodes and deletions of coming-soon series; the
\* store never fails, the clock goes on, the callback runs every minute
NextFairAdmin ==
  \/ AdvanceClock \/ PromoterStep
  \/ UploadComingSoonEpisode \/ UploadBatchComingSoonEpisodes \/ DeleteComingSoonSeries

FairAdminSpec ==
  /\ InitOnePending
  /\ [][NextFairAdmin]_vars
  /\ SF_vars(AdvanceClock)
  /\ WF_vars(PromoterStep)

TypeOK ==
  /\ now \in 0..MaxTime
  /\ \A c \in CSIds : csSeries[c].st \in {"pending", "released", "deleted"}
  /\ \A e \in EpIds : csEpisodes[e].st \in {"absent", "pending", "released", "deleted"}
  /\ faults \in 0..MaxFaults
  /\ ops \in 0..MaxOps

\* ---------------------------------------------------------------- properties
LiveIds == {s.id : s \in series}

SeriesFrom(c) == {s \in series : s.src = c}

LogsFor(c) == {i \in 1..Len(transferLog) : transferLog[i].csId = c}

DueIds(r) == {r.due[i].id : i \in 1..Len(r.due)}

FaultOn(r, id) == \E i \in 1..Len(r.flt) : r.flt[i].id = id

EPcs == EItemPcs \cup {"e_loop", "e_done"}

\* C1: after a Series Promoter call in which no store operation failed, every
\* ComingSoonSeries that was due when the call started is deleted, exactly one Series
\* made from it exists, and exactly one transfer log entry names it, with that Series.
C1_OneSeriesOneLogPerDueSeries ==
  \A p \in Procs :
    LET r == run[p]
    IN (r.pc = "s_done" /\ r.flt = <<>>) =>
         \A c \in DueIds(r) :
           /\ csSeries[c].st = "deleted"
           /\ Cardinality(SeriesFrom(c)) = 1
           /\ Cardinality(LogsFor(c)) = 1
           /\ \A i \in LogsFor(c) : \E s \in SeriesFrom(c) : transferLog[i].seriesId = s.id

C3_AtMostOneSeriesPerComingSoon == \A c \in CSIds : Cardinality(SeriesFrom(c)) <= 1

\* C4: a promoter call that follows a fault-free call of the same promoter, with the
\* same now and the store as that call left it, and in which no store operation
\* fails, leaves Series, Episode and the transfer log as they were and records no error.
C4_SecondCallChangesNothing ==
  \A p \in Procs :
    LET r == run[p]
    IN (r.pc \in {"s_done", "e_done"} /\ r.repeat /\ r.flt = <<>>) =>
         /\ LiveStore = [se |-> r.start.se, ep |-> r.start.ep, tl |-> r.start.tl]
         /\ r.errors = <<>>

\* a second Episode Promoter call, after one that released something, with a due
\* set that is not empty
C4_Witness ==
  \E p \in Procs :
    /\ run[p].pc = "e_done" /\ run[p].repeat /\ run[p].after
    /\ run[p].flt = <<>> /\ run[p].due # <<>>

\* C5: when a Series Promoter call in which no store operation failed returns, every
\* ComingSoonEpisode that was pending and tied to a series of its due set is deleted
\* and is an Episode, saved by the Series Promoter, of the Series made from it.
C5_ReleaseWithParent ==
  \A p \in Procs :
    LET r == run[p]
    IN (r.pc = "s_done" /\ r.flt = <<>>) =>
         \A c \in DueIds(r), e \in EpIds :
           (r.start.ce[e].st = "pending" /\ r.start.ce[e].csId = c) =>
              /\ csEpisodes[e].st = "deleted"
              /\ \E s \in SeriesFrom(c) :
                   /\ s \notin r.start.se
                   /\ [seriesId |-> s.id, episode |-> r.start.ce[e].episode, src |-> e, by |-> "S"]
                        \in episodes

\* an episode scheduled later than now went live with its series
C5_Witness ==
  \E p \in Procs :
    LET r == run[p]
    IN /\ r.pc = "s_done" /\ r.flt = <<>>
       /\ \E c \in DueIds(r), e \in EpIds :
            /\ r.start.ce[e].st = "pending" /\ r.start.ce[e].csId = c
            /\ r.start.ce[e].sched > now
            /\ csEpisodes[e].st = "deleted"

\* C6: during and after an Episode Promoter call, a due ComingSoonEpisode without
\* seriesId whose comingSoonSeriesId has no transfer log entry (or that has no
\* comingSoonSeriesId either), and on which no store operation failed, is as it was:
\* present, pending, without seriesId, not an Episode, not in the error list.
C6_UnreleasedParentUntouched ==
  \A p \in Procs :
    LET r == run[p]
    IN r.pc \in EPcs =>
         \A i \in 1..Len(r.due) :
           LET d == r.due[i]
           IN (d.seriesId = None /\ LogsFor(d.csId) = {} /\ ~FaultOn(r, d.id)) =>
                /\ csEpisodes[d.id] = r.start.ce[d.id]
                /\ csEpisodes[d.id].st = "pending"
                /\ csEpisodes[d.id].seriesId = None
                /\ ~\E le \in episodes : le.src = d.id
                /\ d.id \notin Range(r.errors)

\* the call released one episode and passed over another that waits for its series
C6_Witness ==
  \E p \in Procs :
    LET r == run[p]
    IN /\ r.pc = "e_done" /\ r.flt = <<>> /\ r.released # <<>>
       /\ \E i \in 1..Len(r.due) : r.due[i].seriesId = None /\ LogsFor(r.due[i].csId) = {}

\* C7: while the ComingSoonSeries an episode's comingSoonSeriesId points to is still
\* pending, no step of the Episode Promoter changes that ComingSoonEpisode (the
\* store never fails).
C7_UntouchedWhileSeriesPending ==
  [][\A e \in EpIds :
       (/\ \E p \in Procs : run[p].pc \in EPcs
        /\ csEpisodes[e].st = "pending"
        /\ csEpisodes[e].csId \in CSIds
        /\ csSeries[csEpisodes[e].csId].st = "pending")
       => csEpisodes'[e] = csEpisodes[e]]_vars

\* what holds of an episode tied to a pending series by comingSoonSeriesId alone:
\* it becomes an Episode of the Series made from that series, and its document goes
WaitingEpisodeReleased ==
  \A e \in EpIds, c \in CSIds :
    (/\ csSeries[c].st = "pending"
     /\ csEpisodes[e].st = "pending" /\ csEpisodes[e].csId = c /\ csEpisodes[e].seriesId = None)
    ~> (/\ csEpisodes[e].st = "deleted"
        /\ \E le \in episodes : le.src = e /\ \E x \in SeriesFrom(c) : x.id = le.seriesId)

DupPcs == {"e_dup_mark", "e_dup_delete", "s_ep_dup_mark", "s_ep_dup_delete"}

InSeriesCall(r) == r.pc \in SItemPcs \cup SEpPcs \cup {"s_find", "s_info", "s_loop", "s_ep_loop", "s_done"}

\* the pending document the call is working on
Current(r) == IF InSeriesCall(r) THEN r.ep.id ELSE r.cur.id

FaultOnEpisode(r, e) ==
  \E i \in 1..Len(r.flt) : IF InSeriesCall(r) THEN r.flt[i].ep = e ELSE r.flt[i].id = e

\* C8: once a promoter has found that an Episode with the pending document's
\* (seriesId, episode) exists, that Episode stays as it is and stays the only one with
\* that key; unless a store operation on the document fails, the document is marked
\* released, then deleted, and the Episode Promoter does not record it as an error.
C8_ExistingEpisodeCleanup ==
  \A p \in Procs :
    LET r == run[p]
    IN \A x \in r.dups :
         /\ x.le \in episodes
         /\ Cardinality({le \in episodes : le.seriesId = x.le.seriesId /\ le.episode = x.le.episode}) = 1
         /\ ~FaultOnEpisode(r, x.id) =>
              /\ InSeriesCall(r) \/ x.id \notin Range(r.errors)
              /\ (r.pc \in {"e_dup_mark", "s_ep_dup_mark"} /\ Current(r) = x.id)
                    => csEpisodes[x.id].st # "deleted"
              /\ (r.pc \in {"e_dup_delete", "s_ep_dup_delete"} /\ Current(r) = x.id)
                    => csEpisodes[x.id].st = "released"
              /\ ~(r.pc \in DupPcs /\ Current(r) = x.id) => csEpisodes[x.id].st = "deleted"

\* an Episode Promoter call found an existing Episode and removed the pending document
C8_Witness ==
  \E p \in Procs :
    LET r == run[p]
    IN /\ r.pc = "e_done" /\ r.flt = <<>>
       /\ \E x \in r.dups : csEpisodes[x.id].st = "deleted" /\ x.le.src # x.id

Pos(r, id) == CHOOSE j \in 1..Len(r.due) : r.due[j].id = id

ItemFault(f) == f.at \in SItemPcs \cup EItemPcs

\* the stored document of a due item, and the query that returns the due set
Rec(r, id) == IF InSeriesCall(r) THEN csSeries[id] ELSE csEpisodes[id]

RecAtStart(r, id) == IF InSeriesCall(r) THEN r.start.cs[id] ELSE r.start.ce[id]

StillDue(r, id) ==
  IF InSeriesCall(r)
  THEN csSeries[id].st = "pending" /\ csSeries[id].sched <= now
  ELSE csEpisodes[id].st = "pending" /\ csEpisodes[id].sched <= now

\* what a promoter call has made of a due item so far
MadeFrom(r, id) ==
  IF InSeriesCall(r) THEN {s \in series \ r.start.se : s.src = id}
  ELSE {le \in episodes \ r.start.ep : le.src = id}

\* C9: when a store operation of the loop body of the k-th due item throws ENOSPC,
\* the call ends there: the items after k are never taken from the due set, their
\* documents are as they were at the start (present, pending), nothing was made from
\* them and the due-set query still returns them; an item before k that was
\* released, with no store operation failing on it, is still released.
C9_EnospcAbortsBatch ==
  \A p \in Procs :
    LET r == run[p]
    IN \A i \in 1..Len(r.flt) :
         LET f == r.flt[i]
             k == Pos(r, f.id)
         IN (f.kind = "ENOSPC" /\ ItemFault(f)) =>
              /\ r.pc \in {"s_done", "e_done"}
              /\ r.queue = SubSeq(r.due, k + 1, Len(r.due))
              /\ \A j \in (k + 1)..Len(r.due) :
                   /\ Rec(r, r.due[j].id) = RecAtStart(r, r.due[j].id)
                   /\ Rec(r, r.due[j].id).st = "pending"
                   /\ StillDue(r, r.due[j].id)
                   /\ MadeFrom(r, r.due[j].id) = {}
              /\ \A j \in 1..(k - 1) :
                   (\A g \in Range(r.flt) : ~(ItemFault(g) /\ g.id = r.due[j].id)) =>
                      IF InSeriesCall(r)
                      THEN csSeries[r.due[j].id].st = "deleted" /\ MadeFrom(r, r.due[j].id) # {}
                      ELSE MadeFrom(r, r.due[j].id) # {} => csEpisodes[r.due[j].id].st = "deleted"

\* ENOSPC on the first of two due series, after its Series was saved
C9_Witness ==
  \E p \in Procs :
    LET r == run[p]
    IN /\ r.pc = "s_done" /\ Len(r.due) = 2
       /\ \E i \in 1..Len(r.flt) :
            r.flt[i].kind = "ENOSPC" /\ r.flt[i].at = "s_log" /\ r.flt[i].id = r.due[1].id

MarkedPcs == {"s_delete", "e_delete", "e_dup_delete"}

C11_EnospcItemStaysPending ==
  \A p \in Procs :
    LET r == run[p]
    IN \A i \in 1..Len(r.flt) :
         LET f == r.flt[i]
         IN (f.kind = "ENOSPC" /\ ItemFault(f)) => Rec(r, f.id).st = "pending"

\* C12: whatever store operation throws, the error is caught inside the promoter:
\* no call ends rejected, and a call that has not returned can always take its next
\* step, so the callback's await of it returns and the callback goes on.
C12_NoErrorPropagates ==
  \A p \in Procs :
    /\ run[p].pc # "rejected"
    /\ run[p].pc # "idle" => ENABLED (TickStep(p) \/ BootEnd(p) \/ SeriesStep(p) \/ EpisodeStep(p))

\* the due-set query of the Episode Promoter threw and the call has returned
C12_Witness ==
  \E p \in Procs :
    LET r == run[p]
    IN /\ r.pc = "e_done"
       /\ \E i \in 1..Len(r.flt) : r.flt[i].at = "e_find"

\* C13: no cron callback is running promoter code while a start-up call is still
\* in flight (nor the other way round).
C13_SingleRunInFlight ==
  ~(/\ \E t \in TickProcs : run[t].pc # "idle"
    /\ \E b \in BootProcs : run[b].pc # "idle")

\* C14: the start-up Episode Promoter has the result of its due-set query only after
\* the start-up Series Promoter has returned.
C14_EpisodesAfterSeries == run["bootE"].pc \in EPcs => run["bootS"].pc = "idle"

\* C15: no two documents of the Episode collection have the same (seriesId, episode).
C15_EpisodeKeyUnique ==
  \A a, b \in episodes : (a.seriesId = b.seriesId /\ a.episode = b.episode) => a = b

\* both start-up calls found no Episode with the key and saved one: the unique index
\* rejected the second save
C15_Witness ==
  \E p \in Procs : \E i \in 1..Len(run[p].flt) : run[p].flt[i].kind = "E11000"

\* C18: the Series Promoter saves no Series from a ComingSoonSeries whose stored
\* status is released at the moment of the save.
C18_NoSeriesFromReleased ==
  [][\A x \in series' \ series : csSeries[x.src].st # "released"]_vars

LogSeriesIds(c) == {transferLog[i].seriesId : i \in LogsFor(c)}

AfterPersistPcs == EItemPcs \ {"e_lookup", "e_persist"}

\* C19: for a due ComingSoonEpisode without seriesId whose comingSoonSeriesId has a
\* transfer log entry, the Episode Promoter takes the entry's seriesId, has written it
\* to the pending document before it looks for or saves the Episode, the written
\* seriesId is still there when a later step of the item has thrown, and a call in
\* which nothing throws ends with the document removed and its Episode under that
\* Series.
C19_ResolvedPersistedThenReleased ==
  \A p \in Procs :
    LET r == run[p]
    IN /\ (r.pc \in AfterPersistPcs \cup {"e_persist"} /\ r.cur.seriesId = None)
            => r.final \in LogSeriesIds(r.cur.csId)
       /\ (r.pc \in AfterPersistPcs /\ r.cur.seriesId = None)
            => csEpisodes[r.cur.id].seriesId = r.final
       /\ r.pc \in EPcs =>
            \A i \in 1..Len(r.flt) :
              (r.flt[i].at \in AfterPersistPcs /\ r.start.ce[r.flt[i].id].seriesId = None)
                 => csEpisodes[r.flt[i].id].seriesId \in LogSeriesIds(csEpisodes[r.flt[i].id].csId)
       /\ (r.pc = "e_done" /\ r.flt = <<>>) =>
            \A i \in 1..Len(r.due) :
              LET d == r.due[i]
              IN (d.seriesId = None /\ LogSeriesIds(d.csId) # {}) =>
                   /\ csEpisodes[d.id].st = "deleted"
                   /\ \E le \in episodes :
                        le.seriesId \in LogSeriesIds(d.csId) /\ le.episode = d.episode

\* the save of an Episode threw after the seriesId found in the transfer log had
\* been written to the pending document
C19_Witness ==
  \E p \in Procs :
    LET r == run[p]
    IN /\ r.pc \in EPcs
       /\ \E i \in 1..Len(r.flt) :
            /\ r.flt[i].at = "e_save"
            /\ r.start.ce[r.flt[i].id].seriesId = None
            /\ csEpisodes[r.flt[i].id].seriesId # None

\* C16: every step leaves the transfer log as it is or appends one entry to it.
C16_TransferLogAppendOnly ==
  [][\/ transferLog' = transferLog
     \/ \E c \in CSIds, x \in series' :
          transferLog' = Append(transferLog, [csId |-> c, seriesId |-> x.id])]_vars

\* a second entry was written for a ComingSoonSeries that had one, and both are there
C16_Witness ==
  \E i, j \in 1..Len(transferLog) : i < j /\ transferLog[i].csId = transferLog[j].csId

Forward(a, b) ==
  \/ a = b
  \/ <<a, b>> \in {<<"absent", "pending">>, <<"pending", "released">>,
                    <<"pending", "deleted">>, <<"released", "deleted">>}

\* C17: the status of a ComingSoonSeries or ComingSoonEpisode document only moves
\* forward, pending, released, deleted: no step takes a released one back to pending
\* and a deleted one stays deleted.
C17_StatusOnlyForward ==
  [][/\ \A c \in CSIds : Forward(csSeries[c].st, csSeries'[c].st)
     /\ \A e \in EpIds : Forward(csEpisodes[e].st, csEpisodes'[e].st)]_vars

\* an admin update has given a new release date to a ComingSoonSeries that the
\* Series Promoter had in its due set; the document is released
C17_Witness ==
  \E c \in CSIds : csSeries[c].st = "released" /\ csSeries[c].sched > now /\ ops > 0

\* C20: a ComingSoonEpisode document is created with exactly one of seriesId and
\* comingSoonSeriesId.
C20_ExactlyOneParentAtUpload ==
  [][\A e \in EpIds :
       (csEpisodes[e].st = "absent" /\ csEpisodes'[e].st # "absent")
          => ((csEpisodes'[e].seriesId = None) # (csEpisodes'[e].csId = None))]_vars

\* C21: a Series is only ever saved from a ComingSoonSeries whose stored status is
\* pending and whose release date is not later than now, and the Episode Promoter
\* only ever saves an Episode from a ComingSoonEpisode whose release date is not
\* later than now (an earlier release is the Series Promoter's, with the parent).
C21_OnlyDuePromoted ==
  [][/\ \A x \in series' \ series :
          csSeries[x.src].st = "pending" /\ csSeries[x.src].sched <= now
     /\ \A le \in episodes' \ episodes :
          le.by = "E" => csEpisodes[le.src].sched <= now]_vars

\* C22: when a store operation of the nested episode loop of the Series Promoter
\* throws ENOSPC, the call ends there: no further episode of that series and no
\* further due series is taken.
C22_NestedEnospcAbortsBatch ==
  \A p \in Procs :
    LET r == run[p]
    IN \A i \in 1..Len(r.flt) :
         (r.flt[i].kind = "ENOSPC" /\ r.flt[i].at \in SEpPcs) => r.pc = "s_done"

\* C23: no Episode is saved from a ComingSoonEpisode whose comingSoonSeriesId points
\* to a ComingSoonSeries that is present with status pending.
C23_NoEpisodeWhileSeriesPending ==
  [][\A le \in episodes' \ episodes :
       csEpisodes[le.src].csId \in CSIds => csSeries[csEpisodes[le.src].csId].st # "pending"]_vars

\* the case of a Series Promoter attempt that failed after the re-link: the Episode
\* is saved under a Series made from the still pending ComingSoonSeries
C23_NotUnderOrphanSeries ==
  [][\A le \in episodes' \ episodes :
       LET c == csEpisodes[le.src].csId
       IN (c \in CSIds /\ le.seriesId \in {x.id : x \in SeriesFrom(c)}) => csSeries[c].st # "pending"]_vars

\* C24: a ComingSoonSeries or ComingSoonEpisode document with status released is
\* eventually deleted, whatever store operation has thrown before.
C24_ReleasedIsTransient ==
  /\ \A c \in CSIds : (csSeries[c].st = "released") ~> (csSeries[c].st = "deleted")
  /\ \A e \in EpIds : (csEpisodes[e].st = "released") ~> (csEpisodes[e].st = "deleted")

\* C25: the re-link step of the Series Promoter changes nothing but the seriesId of
\* the ComingSoonEpisode documents whose comingSoonSeriesId is the series being
\* promoted, which becomes the new Series: their status, release date, episode
\* number and comingSoonSeriesId stay, every other ComingSoonEpisode stays as it is,
\* and so do the other collections.
C25_RelinkFrame ==
  [][\A p \in Procs :
       (run[p].pc = "s_relink" /\ run'[p].pc = "s_log") =>
          /\ \A e \in EpIds :
               IF csEpisodes[e].csId = run[p].cur.id
               THEN /\ csEpisodes'[e].st = csEpisodes[e].st
                    /\ csEpisodes'[e].sched = csEpisodes[e].sched
                    /\ csEpisodes'[e].episode = csEpisodes[e].episode
                    /\ csEpisodes'[e].csId = csEpisodes[e].csId
                    /\ csEpisodes'[e].seriesId \in {csEpisodes[e].seriesId, run[p].newSeries}
                    /\ csEpisodes[e].st = "pending" => csEpisodes'[e].seriesId = run[p].newSeries
               ELSE csEpisodes'[e] = csEpisodes[e]
          /\ <<csSeries, series, episodes, transferLog>>' = <<csSeries, series, episodes, transferLog>>]_vars

\* the re-link has given the new Series to a pending episode of the series, next to
\* a pending episode with seriesId that belongs elsewhere
C25_Witness ==
  \E p \in Procs :
    LET r == run[p]
    IN /\ r.pc = "s_log"
       /\ \E e \in EpIds :
            csEpisodes[e].st = "pending" /\ csEpisodes[e].csId = r.cur.id /\ csEpisodes[e].seriesId = r.newSeries
       /\ \E e \in EpIds :
            csEpisodes[e].st = "pending" /\ csEpisodes[e].csId # r.cur.id /\ csEpisodes[e].seriesId = PreLive

\* C26: the transfer log never holds two entries with the same comingSoonSeriesId.
C26_OneLogEntryPerComingSoon == \A c \in CSIds : Cardinality(LogsFor(c)) <= 1

\* C27: in every state, a ComingSoonSeries that the Series Promoter has marked
\* released or has deleted has a transfer log entry whose seriesId is an existing
\* Series made from it.
C27_ReleasedSeriesIsLogged ==
  \A c \in CSIds :
    csSeries[c].st \in {"released", "deleted"} =>
      \E i \in LogsFor(c) : \E x \in SeriesFrom(c) : transferLog[i].seriesId = x.id

\* the delete after the mark threw: the document is left released, the call is over
C27_Witness ==
  \E p \in Procs :
    LET r == run[p]
    IN /\ r.pc = "s_done"
       /\ \E i \in 1..Len(r.flt) : r.flt[i].at = "s_delete" /\ csSeries[r.flt[i].id].st = "released"

\* the Series a promoter call has resolved for the document it is working on
ResolvedSeries(r) == IF InSeriesCall(r) THEN r.newSeries ELSE r.final

\* C28: whenever a step marks a ComingSoonEpisode released or deletes it, the step is
\* a promoter's, on the document it is working on, and an Episode with the document's
\* episode number exists under the existing Series the promoter resolved for it; and
\* no step ever removes an Episode. So the Episode is there in every later state.
C28_NoEpisodeLost ==
  [][/\ episodes \subseteq episodes'
     /\ \A e \in EpIds :
          (csEpisodes'[e].st \in {"released", "deleted"} /\ csEpisodes'[e].st # csEpisodes[e].st) =>
             \E p \in Procs :
               /\ Current(run[p]) = e
               /\ ResolvedSeries(run[p]) \in LiveIds
               /\ \E le \in episodes :
                    le.seriesId = ResolvedSeries(run[p]) /\ le.episode = csEpisodes[e].episode]_vars

\* the delete after the mark threw: the document is left released, its Episode exists
C28_Witness ==
  \E p \in Procs :
    LET r == run[p]
    IN /\ r.pc = "e_done"
       /\ \E i \in 1..Len(r.flt) :
            /\ r.flt[i].at = "e_delete" /\ csEpisodes[r.flt[i].id].st = "released"
            /\ \E le \in episodes : le.src = r.flt[i].id

\* C29: no step changes the seriesId of a pending ComingSoonEpisode whose seriesId
\* names an existing Series, and an Episode saved from such a document is saved under
\* that Series.
C29_ParentKept ==
  [][\A e \in EpIds :
       (csEpisodes[e].st = "pending" /\ csEpisodes[e].seriesId \in LiveIds) =>
          /\ csEpisodes'[e].seriesId = csEpisodes[e].seriesId
          /\ \A le \in episodes' \ episodes : le.src = e => le.seriesId = csEpisodes[e].seriesId]_vars

\* C30: every pending ComingSoonEpisode is eventually gone from the collection
\* (released as an Episode, or removed), when no store operation fails, the clock
\* goes on and the callback runs every minute.
C30_NoEpisodePendingForever ==
  \A e \in EpIds : (csEpisodes[e].st = "pending") ~> (csEpisodes[e].st = "deleted")

====
